---------------------------- MODULE Spec2Model ----------------------------
(***************************************************************************)
(* A model of philipp-eisen/similar-items: shingling, shingle hashing,     *)
(* MinHash signatures, the band/row search and LSH banding                 *)
(* (src/similaritem/utils.py) and the pipeline that drives them            *)
(* (src/similaritem/main.py).                                              *)
(*                                                                         *)
(* Python values are encoded as follows.  A str is a sequence of           *)
(* one-character strings.  A float threshold is the exact rational         *)
(* <<p, q>> (p/q, q > 0).  None is the integer None (-1), outside the      *)
(* range of every band and row count.  A list or tuple is a record         *)
(* [kind, vals].  A dict is a function together with its key order.        *)
(***************************************************************************)
EXTENDS Integers, Sequences, FiniteSets, TLC

VARIABLES
    pc,                    \* position of the running function
    document,              \* the lines the file iterator yields
    shingle_size,          \* k
    shingles,              \* result of create_shingles_from_file
    raw_hashes,            \* the values hash(shingle) takes on the shingles
    hashed_shingles,       \* result of hash_shingles
    drawn,                 \* the (a, b) pairs random.randint returned, in order
    hash_funcs,            \* the closures generate_hash_functions has built
    closure_env,           \* the locals a, b those closures refer to
    signature,             \* result of create_min_hash_signature
    signature_size,        \* n
    threshold,             \* <<p, q>>
    high_recall,           \* mode of compute_index_measures
    b, r,                  \* loop variables of compute_index_measures
    n_bands, n_rows,       \* result of compute_index_measures
    tuple_hash,            \* which function hash() is on tuples of ints
    keys,                  \* key order of the documents dicts
    documents_hashes,      \* doc id -> hashed shingle set
    document_signatures,   \* doc id -> signature
    jaccard_similarities,
    signature_similarities,
    candidate_pairs,
    similar_docs,
    error                  \* the exception that ended the run, or "none"

shingleVars == <<document, shingle_size, shingles>>
hashVars    == <<raw_hashes, hashed_shingles>>
minhashVars == <<drawn, hash_funcs, closure_env, signature>>
indexVars   == <<signature_size, threshold, high_recall, b, r, n_bands, n_rows>>
mainVars    == <<tuple_hash, keys, documents_hashes, document_signatures,
                 jaccard_similarities, signature_similarities,
                 candidate_pairs, similar_docs, error>>
vars == <<pc, shingleVars, hashVars, minhashVars, indexVars, mainVars>>

----------------------------------------------------------------------------
(* Bounds of the model *)

MaxSignatureSize == 6

MaxLineLen == 2

MaxLines == 3

MaxShingleSize == 3

MaxLshSignatureSize == 2

MaxBands == 2

MaxRows == 2

MaxPipelineSignatureSize == 4

\* bits of a hash() value, sign included (64 in CPython)
HashBits == 9

\* largest value of random.randint's range (100 in the program)
MaxCoefficient == 2

(* Program constants *)

DefaultSignatureSize == 100

None == -1

\* utils.L_MAX_32_BIT_INT, the largest prime below 2^32 (0xFFFFFFFB), scaled to
\* the largest prime below 2^8 (0xFB)
HASH_BUCKETS == 251

\* sys.maxsize, scaled to the largest integer of the model
sys_maxsize == 2147483647

----------------------------------------------------------------------------
(* Exact arithmetic for t = (1.0 / b) ** (1.0 / r) compared with the       *)
(* threshold p/q.  For p > 0:  t < p/q  <=>  q^r < b * p^r.  The powers    *)
(* exceed 32 bits, so they are computed on little-endian digit sequences.  *)
(* On the thresholds and sizes of this model no estimate lies within       *)
(* floating-point rounding of the threshold unless it is exactly equal and *)
(* exactly representable, so the exact comparison is the float one.        *)

BigBase == 10000

RECURSIVE BigMulCarry(_, _, _, _)
BigMulCarry(x, m, i, carry) ==
    IF i > Len(x)
    THEN IF carry = 0 THEN <<>> ELSE <<carry>>
    ELSE LET v == x[i] * m + carry
         IN  <<v % BigBase>> \o BigMulCarry(x, m, i + 1, v \div BigBase)

\* x * m for a digit sequence x and 0 < m < BigBase
BigMul(x, m) == BigMulCarry(x, m, 1, 0)

RECURSIVE BigAddCarry(_, _, _, _)
BigAddCarry(x, y, i, carry) ==
    IF i > Len(x) /\ i > Len(y)
    THEN IF carry = 0 THEN <<>> ELSE <<carry>>
    ELSE LET v == (IF i <= Len(x) THEN x[i] ELSE 0)
                  + (IF i <= Len(y) THEN y[i] ELSE 0) + carry
         IN  <<v % BigBase>> \o BigAddCarry(x, y, i + 1, v \div BigBase)

BigAdd(x, y) == BigAddCarry(x, y, 1, 0)

\* x * y, one digit of y at a time
RECURSIVE BigTimesFrom(_, _, _)
BigTimesFrom(x, y, i) ==
    IF i > Len(y)
    THEN <<>>
    ELSE CHOOSE z \in {BigAdd(BigMul(x, y[i]), <<0>> \o BigTimesFrom(x, y, i + 1))} : TRUE

BigTimes(x, y) == BigTimesFrom(x, y, 1)

\* m ^ e by repeated squaring
RECURSIVE BigPow(_, _)
BigPow(m, e) ==
    IF e = 0
    THEN <<1>>
    ELSE LET h == CHOOSE z \in {BigPow(m, e \div 2)} : TRUE
             s == CHOOSE z \in {BigTimes(h, h)} : TRUE
         IN  IF e % 2 = 0 THEN s ELSE BigMul(s, m)

BigLess(x, y) ==
    \/ Len(x) < Len(y)
    \/ /\ Len(x) = Len(y)
       /\ \E i \in 1..Len(x) :
            /\ x[i] < y[i]
            /\ \A j \in (i + 1)..Len(x) : x[j] = y[j]

\* (1.0 / bb) ** (1.0 / rr) < p / q
estimate_less(bb, rr, th) ==
    /\ th[1] > 0
    /\ BigLess(BigPow(th[2], rr), BigMul(BigPow(th[1], rr), bb))

\* (1.0 / bb) ** (1.0 / rr) > p / q
estimate_greater(bb, rr, th) ==
    \/ th[1] <= 0
    \/ BigLess(BigMul(BigPow(th[1], rr), bb), BigPow(th[2], rr))

----------------------------------------------------------------------------
(* compute_index_measures: one action per iteration of its while loop *)

\* if r >= signature_size: b, r = b + 1, 1
reset_b_r_stuck(bb, rr, n) == IF rr >= n THEN <<bb, 1>> ELSE <<bb, rr>>
reset_b_r(bb, rr, n) == IF rr >= n THEN <<bb + 1, 1>> ELSE <<bb, rr>>

\* if b * r == signature_size
is_factor_pair_loose(bb, rr, n) == bb * rr <= n
is_factor_pair(bb, rr, n) == bb * rr = n

compute_index_measures_loop ==
    /\ pc = "scan"
    /\ b <= signature_size
    /\ LET br == reset_b_r(b, r, signature_size)
           b1 == br[1]
           r1 == br[2]
       IN  /\ b' = b1
           /\ IF is_factor_pair(b1, r1, signature_size)
              THEN IF high_recall /\ estimate_less(b1, r1, threshold)
                   THEN /\ n_bands' = b1
                        /\ n_rows' = r1
                        /\ r' = r1
                        /\ pc' = "returned"
                   ELSE IF ~high_recall /\ estimate_greater(b1, r1, threshold)
                   THEN /\ n_bands' = b1
                        /\ n_rows' = r1
                        /\ r' = r1 + 1
                        /\ pc' = pc
                   ELSE /\ UNCHANGED <<n_bands, n_rows>>
                        /\ r' = r1 + 1
                        /\ pc' = pc
              ELSE /\ UNCHANGED <<n_bands, n_rows>>
                   /\ r' = r1 + 1
                   /\ pc' = pc
    /\ UNCHANGED <<signature_size, threshold, high_recall>>
    /\ UNCHANGED <<shingleVars, hashVars, minhashVars, mainVars>>

compute_index_measures_return ==
    /\ pc = "scan"
    /\ ~(b <= signature_size)
    /\ pc' = "returned"
    /\ UNCHANGED <<shingleVars, hashVars, minhashVars, indexVars, mainVars>>

----------------------------------------------------------------------------
(* create_shingles_from_file *)

Min(x, y) == IF x <= y THEN x ELSE y

\* re.sub(from, to, s) for one-character patterns
re_sub_char(s, from, to) == [i \in 1..Len(s) |-> IF s[i] = from THEN to ELSE s[i]]

\* re.sub('[ ]{2,}', ' ', s): every run of two or more spaces becomes one space
RECURSIVE collapse_spaces_from(_, _)
collapse_spaces_from(s, i) ==
    IF i > Len(s)
    THEN <<>>
    ELSE (IF s[i] = " " /\ i > 1 /\ s[i - 1] = " " THEN <<>> ELSE <<s[i]>>)
         \o collapse_spaces_from(s, i + 1)

collapse_spaces(s) == collapse_spaces_from(s, 1)

\* the three substitutions applied to working_line
normalize(s) == collapse_spaces(re_sub_char(re_sub_char(s, "\n", " "), "\t", " "))

\* {s[i:i + k] for i in range(len(s) - (k - 1))}
windows(s, k) == {SubSeq(s, i + 1, i + k) : i \in 0..(Len(s) - (k - 1) - 1)}

\* s[-(k - 1):]; s[-0:] is the whole string
tail_slice(s, k) ==
    IF k - 1 = 0 THEN s ELSE SubSeq(s, Len(s) - Min(k - 1, Len(s)) + 1, Len(s))

\* left_over is assigned inside the window loop: only when a window exists
next_left_over(working_line, k, left_over) ==
    IF Len(working_line) - (k - 1) > 0 THEN tail_slice(working_line, k) ELSE left_over

\* the for loop over the lines, from line idx on
RECURSIVE shingles_from_line(_, _, _, _, _)
shingles_from_line(lines, idx, k, acc, left_over) ==
    IF idx > Len(lines)
    THEN acc
    ELSE LET working_line == normalize(left_over \o lines[idx])
         IN  shingles_from_line(lines, idx + 1, k,
                                acc \cup windows(working_line, k),
                                next_left_over(working_line, k, left_over))

create_shingles_from_file(lines, k) == shingles_from_line(lines, 1, k, {}, <<>>)

call_create_shingles_from_file ==
    /\ pc = "shingle"
    /\ shingles' = create_shingles_from_file(document, shingle_size)
    /\ pc' = "shingled"
    /\ UNCHANGED <<document, shingle_size>>
    /\ UNCHANGED <<hashVars, minhashVars, indexVars, mainVars>>

----------------------------------------------------------------------------
(* hash_shingles *)

RECURSIVE Pow2(_)
Pow2(n) == IF n = 0 THEN 1 ELSE 2 * Pow2(n - 1)

RECURSIVE BitAndNat(_, _)
BitAndNat(x, y) ==
    IF x = 0 \/ y = 0
    THEN 0
    ELSE (x % 2) * (y % 2) + 2 * BitAndNat(x \div 2, y \div 2)

\* h & m for m >= 0: a negative h is its two's complement
BitAnd(h, m) == BitAndNat(h % Pow2(HashBits), m)

\* {(hash(shingle) & maxi) for shingle in shingles}, on the shingles' hash values
hash_shingles(hashes, maxi) == {BitAnd(h, maxi) : h \in hashes}

call_hash_shingles ==
    /\ pc = "hash"
    /\ hashed_shingles' = hash_shingles(raw_hashes, HASH_BUCKETS)
    /\ pc' = "hashed"
    /\ UNCHANGED raw_hashes
    /\ UNCHANGED <<shingleVars, minhashVars, indexVars, mainVars>>

----------------------------------------------------------------------------
(* generate_hash_functions and create_min_hash_signature *)

Coefficients == 1..MaxCoefficient

\* lambda x: (a * x + b) % hash_buckets.  a and b are locals of
\* generate_hash_functions: the lambda refers to the variables, whose values
\* are read when it is called.
lambda_hash == [code |-> "(a * x + b) % hash_buckets", env |-> "generate_hash_functions"]

\* hfunc(x) with the captured variables as they are at the call
apply_hash(hfunc, env, x) == (env.a * x + env.b) % HASH_BUCKETS

\* one iteration of the for loop: a, b = randint, randint; append the lambda
generate_hash_functions_iter(n, rand_a, rand_b) ==
    /\ Len(hash_funcs) < n
    /\ closure_env' = [a |-> rand_a, b |-> rand_b]
    /\ hash_funcs' = Append(hash_funcs, lambda_hash)

\* signature = tuple([min(hfunc(shingle_hash), val) for hfunc, val in zip(...)])
fold_min(funcs, env, x, sig) ==
    [kind |-> "tuple",
     vals |-> [i \in 1..Min(Len(funcs), Len(sig.vals)) |->
                 Min(apply_hash(funcs[i], env, x), sig.vals[i])]]

RECURSIVE min_hash_loop(_, _, _, _)
min_hash_loop(todo, funcs, env, sig) ==
    IF todo = {}
    THEN sig
    ELSE LET x == CHOOSE y \in todo : TRUE
         IN  min_hash_loop(todo \ {x}, funcs, env, fold_min(funcs, env, x, sig))

\* the signature starts as a list and is rebound to a tuple by the first element
create_min_hash_signature(hashed, funcs, env) ==
    min_hash_loop(hashed, funcs, env,
                  [kind |-> "list", vals |-> [i \in 1..Len(funcs) |-> sys_maxsize]])

\* generate_hash_functions called on its own, the draws recorded
call_generate_hash_functions_iter ==
    /\ pc = "generate"
    /\ \E rand_a \in Coefficients, rand_b \in Coefficients :
        /\ generate_hash_functions_iter(signature_size, rand_a, rand_b)
        /\ drawn' = Append(drawn, <<rand_a, rand_b>>)
    /\ UNCHANGED <<pc, signature>>
    /\ UNCHANGED <<shingleVars, hashVars, indexVars, mainVars>>

call_generate_hash_functions_return ==
    /\ pc = "generate"
    /\ ~(Len(hash_funcs) < signature_size)
    /\ pc' = "generated"
    /\ UNCHANGED <<shingleVars, hashVars, minhashVars, indexVars, mainVars>>

call_create_min_hash_signature ==
    /\ pc = "generated"
    /\ signature' = create_min_hash_signature(hashed_shingles, hash_funcs, closure_env)
    /\ pc' = "signed"
    /\ UNCHANGED <<drawn, hash_funcs, closure_env>>
    /\ UNCHANGED <<shingleVars, hashVars, indexVars, mainVars>>

----------------------------------------------------------------------------
(* create_lsh_candidate_pairs *)

\* hash() of a tuple of ints is a fixed function the model does not know; it
\* stands for it by a polynomial hash, an order-insensitive sum and a constant
\* (every band collides), each a signed HashBits-bit value.
TupleHashes == {"poly", "sum", "const"}

to_signed(v) == IF v >= Pow2(HashBits - 1) THEN v - Pow2(HashBits) ELSE v

RECURSIVE poly_hash(_, _, _)
poly_hash(t, i, h) ==
    IF i > Len(t) THEN h ELSE poly_hash(t, i + 1, (h * 31 + t[i] + 1) % Pow2(HashBits))

RECURSIVE sum_hash(_, _, _)
sum_hash(t, i, h) ==
    IF i > Len(t) THEN h ELSE sum_hash(t, i + 1, (h + t[i]) % Pow2(HashBits))

hash_tuple(kind, t) ==
    IF kind = "poly" THEN to_signed(poly_hash(t, 1, 7))
    ELSE IF kind = "sum" THEN to_signed(sum_hash(t, 1, 0))
    ELSE 0 - 2

\* s[lo:hi] for 0 <= lo <= hi
slice(s, lo, hi) == SubSeq(s, lo + 1, Min(hi, Len(s)))

\* str(n) for n >= 0
RECURSIVE int_to_str(_)
int_to_str(n) ==
    LET digit == SubSeq(<<"0", "1", "2", "3", "4", "5", "6", "7", "8", "9">>,
                        (n % 10) + 1, (n % 10) + 1)
    IN  IF n < 10 THEN digit ELSE int_to_str(n \div 10) \o digit

\* str(hash(signature[band * n_rows:(band + 1) * n_rows]) & hash_buckets)
bucket_key(kind, sig, band, rows, hash_buckets) ==
    int_to_str(BitAnd(hash_tuple(kind, slice(sig.vals, band * rows, (band + 1) * rows)),
                      hash_buckets))

\* buckets_in_bands[band][key]: the doc ids appended under key, in dict order
RECURSIVE bucket_members(_, _, _, _, _, _, _)
bucket_members(kind, order, sigs, band, rows, hash_buckets, key) ==
    IF order = <<>>
    THEN <<>>
    ELSE (IF bucket_key(kind, sigs[Head(order)], band, rows, hash_buckets) = key
          THEN <<Head(order)>> ELSE <<>>)
         \o bucket_members(kind, Tail(order), sigs, band, rows, hash_buckets, key)

\* the buckets of all bands that hold more than one document
candidate_lists(kind, order, sigs, rows, bands, hash_buckets) ==
    {c \in {bucket_members(kind, order, sigs, band, rows, hash_buckets,
                           bucket_key(kind, sigs[d], band, rows, hash_buckets)) :
                band \in 0..(bands - 1), d \in {order[i] : i \in 1..Len(order)}} :
        Len(c) > 1}

\* for i in range(len(candidate)): for j in range(i + 1, len(candidate))
pairs_of_both_orders(candidate) ==
    {<<candidate[i], candidate[j]>> : i \in 1..Len(candidate), j \in 1..Len(candidate)}
pairs_of(candidate) ==
    UNION {{<<candidate[i], candidate[j]>> : j \in (i + 1)..Len(candidate)} :
               i \in 1..Len(candidate)}

\* range(None) and hash() of a list raise TypeError
create_lsh_candidate_pairs(kind, order, sigs, rows, bands, hash_buckets) ==
    IF bands = None
    THEN [error |-> "TypeError", pairs |-> {}]
    ELSE IF bands > 0 /\ \E i \in 1..Len(order) : sigs[order[i]].kind = "list"
    THEN [error |-> "TypeError", pairs |-> {}]
    ELSE [error |-> "none",
          pairs |-> UNION {pairs_of(c) :
                        c \in candidate_lists(kind, order, sigs, rows, bands, hash_buckets)}]

call_create_lsh_candidate_pairs ==
    /\ pc = "band"
    /\ LET res == create_lsh_candidate_pairs(tuple_hash, keys, document_signatures,
                                             n_rows, n_bands, HASH_BUCKETS)
       IN  /\ candidate_pairs' = res.pairs
           /\ error' = res.error
           /\ pc' = IF res.error = "none" THEN "banded" ELSE "crashed"
    /\ UNCHANGED <<tuple_hash, keys, documents_hashes, document_signatures,
                   jaccard_similarities, signature_similarities, similar_docs>>
    /\ UNCHANGED <<shingleVars, hashVars, minhashVars, indexVars>>

----------------------------------------------------------------------------
(* check_signature_simularity and the comparisons of main.py *)

equal_positions(sig_a, sig_b) ==
    Cardinality({i \in 1..Len(sig_a.vals) : sig_a.vals[i] = sig_b.vals[i]})

\* (equal_positions / sig_len) >= threshold, for sig_len > 0
meets_threshold_strictly(eq, sig_len, th) == eq * th[2] > th[1] * sig_len
meets_threshold(eq, sig_len, th) == eq * th[2] >= th[1] * sig_len

\* the kept pairs, in the order of candidate_pairs; the pair alone is appended
RECURSIVE check_signature_simularity(_, _, _)
check_signature_simularity(pairs, sigs, th) ==
    IF pairs = <<>>
    THEN <<>>
    ELSE LET candidate_pair == Head(pairs)
             sig_a == sigs[candidate_pair[1]]
             sig_b == sigs[candidate_pair[2]]
         IN  (IF meets_threshold(equal_positions(sig_a, sig_b), Len(sig_a.vals), th)
              THEN <<candidate_pair>> ELSE <<>>)
             \o check_signature_simularity(Tail(pairs), sigs, th)

\* pairs (keys[i], keys[j]) for i < j, in the order of the two loops
RECURSIVE all_pairs(_, _, _)
all_pairs(order, i, j) ==
    IF i > Len(order) THEN <<>>
    ELSE IF j > Len(order) THEN all_pairs(order, i + 1, i + 2)
    ELSE <<<<order[i], order[j]>>>> \o all_pairs(order, i, j + 1)

\* main.py calls utils.check_signature_similarity; utils.py defines the
\* comparator as check_signature_simularity
compare_sets_signature(order, sigs) ==
    check_signature_simularity(all_pairs(order, 1, 2), sigs, <<0, 1>>)

\* |A & B| / |A | B| as <<numerator, denominator>>, 0 when both sets are empty
compute_jaccard_simularity(A, B) ==
    IF A \cup B = {} THEN <<0, 1>>
    ELSE <<Cardinality(A \cap B), Cardinality(A \cup B)>>

compare_sets_jaccard(order, hashes) ==
    LET pairs == all_pairs(order, 1, 2)
    IN  [i \in 1..Len(pairs) |->
            <<pairs[i], compute_jaccard_simularity(hashes[pairs[i][1]], hashes[pairs[i][2]])>>]

\* the orders in which a set can be iterated
Orderings(S) ==
    {s \in [1..Cardinality(S) -> S] : \A i, j \in 1..Cardinality(S) : s[i] = s[j] => i = j}

----------------------------------------------------------------------------
(* main: one action per stage *)

main_compare_sets_jaccard ==
    /\ pc = "main"
    /\ jaccard_similarities' = compare_sets_jaccard(keys, documents_hashes)
    /\ pc' = "main_generate"
    /\ UNCHANGED <<tuple_hash, keys, documents_hashes, document_signatures,
                   signature_similarities, candidate_pairs, similar_docs, error>>
    /\ UNCHANGED <<shingleVars, hashVars, minhashVars, indexVars>>

\* create_signatures_from_shingles: the family ...
main_generate_hash_functions_iter ==
    /\ pc = "main_generate"
    /\ \E rand_a \in Coefficients, rand_b \in Coefficients :
        generate_hash_functions_iter(signature_size, rand_a, rand_b)
    /\ UNCHANGED <<pc, drawn, signature>>
    /\ UNCHANGED <<shingleVars, hashVars, indexVars, mainVars>>

\* ... and then the signature of every document
main_create_signatures ==
    /\ pc = "main_generate"
    /\ ~(Len(hash_funcs) < signature_size)
    /\ document_signatures' =
           [d \in DOMAIN documents_hashes |->
               create_min_hash_signature(documents_hashes[d], hash_funcs, closure_env)]
    /\ pc' = "main_compare"
    /\ UNCHANGED <<tuple_hash, keys, documents_hashes, jaccard_similarities,
                   signature_similarities, candidate_pairs, similar_docs, error>>
    /\ UNCHANGED <<shingleVars, hashVars, minhashVars, indexVars>>

main_compare_sets_signature ==
    /\ pc = "main_compare"
    /\ signature_similarities' = compare_sets_signature(keys, document_signatures)
    /\ pc' = "main_index"
    /\ UNCHANGED <<tuple_hash, keys, documents_hashes, document_signatures,
                   jaccard_similarities, candidate_pairs, similar_docs, error>>
    /\ UNCHANGED <<shingleVars, hashVars, minhashVars, indexVars>>

\* utils.compute_index_measures(signature_size, threshold): high_recall defaults
main_compute_index_measures ==
    /\ pc = "main_index"
    /\ high_recall' = TRUE
    /\ b' = 2 /\ r' = 1
    /\ n_bands' = None /\ n_rows' = None
    /\ pc' = "scan"
    /\ UNCHANGED <<signature_size, threshold>>
    /\ UNCHANGED <<shingleVars, hashVars, minhashVars, mainVars>>

\* n_bands, n_rows = ...; find_similar_docs_using_lsh(...)
main_find_similar_docs_using_lsh ==
    /\ pc = "returned"
    /\ LET res == create_lsh_candidate_pairs(tuple_hash, keys, document_signatures,
                                             n_rows, n_bands, HASH_BUCKETS)
       IN  IF res.error # "none"
           THEN /\ error' = res.error
                /\ pc' = "crashed"
                /\ UNCHANGED <<candidate_pairs, similar_docs>>
           ELSE /\ candidate_pairs' = res.pairs
                /\ \E order \in Orderings(res.pairs) :
                     similar_docs' =
                         check_signature_simularity(order, document_signatures, threshold)
                /\ pc' = "done"
                /\ UNCHANGED error
    /\ UNCHANGED <<tuple_hash, keys, documents_hashes, document_signatures,
                   jaccard_similarities, signature_similarities>>
    /\ UNCHANGED <<shingleVars, hashVars, minhashVars, indexVars>>

----------------------------------------------------------------------------
(* Initial values of the variables a specification does not use *)

IdleShingles == document = <<>> /\ shingle_size = 1 /\ shingles = {}
IdleHash     == raw_hashes = {} /\ hashed_shingles = {}
IdleMinHash  == /\ drawn = <<>> /\ hash_funcs = <<>> /\ signature = <<>>
                /\ closure_env = [a |-> None, b |-> None]
IdleIndex    == /\ signature_size = 1 /\ threshold = <<1, 1>> /\ high_recall = TRUE
                /\ b = 2 /\ r = 1 /\ n_bands = None /\ n_rows = None
IdleMain     == /\ tuple_hash = "poly" /\ keys = <<>>
                /\ documents_hashes = <<>> /\ document_signatures = <<>>
                /\ jaccard_similarities = <<>> /\ signature_similarities = <<>>
                /\ candidate_pairs = {} /\ similar_docs = <<>>
                /\ error = "none"

----------------------------------------------------------------------------
(* The band/row search on its own: every call of compute_index_measures    *)

SignatureSizes == (1..MaxSignatureSize) \cup {DefaultSignatureSize}

Thresholds == {<<0, 1>>, <<1, 100>>, <<1, 4>>, <<1, 2>>, <<4, 5>>, <<1, 1>>, <<3, 2>>}

InitIndex ==
    /\ pc = "scan"
    /\ signature_size \in SignatureSizes
    /\ threshold \in Thresholds
    /\ high_recall \in BOOLEAN
    /\ b = 2 /\ r = 1
    /\ n_bands = None /\ n_rows = None
    /\ IdleShingles /\ IdleHash /\ IdleMinHash /\ IdleMain

NextIndex == compute_index_measures_loop \/ compute_index_measures_return

SpecIndex == InitIndex /\ [][NextIndex]_vars

\* The loop is sequential code: it keeps running until it returns.  The
\* fair specification covers the sizes up to MaxSignatureSize.
InitIndexSmall == InitIndex /\ signature_size <= MaxSignatureSize

SpecIndexFair == InitIndexSmall /\ [][NextIndex]_vars /\ WF_vars(NextIndex)

----------------------------------------------------------------------------
(* Shingle extraction on its own: every document of up to MaxLines lines   *)

LineChars == {"a", "b", " ", "\t"}

LineContents == UNION {[1..len -> LineChars] : len \in 0..MaxLineLen}

\* a line the file iterator yields ends with its newline ...
TerminatedLines == {c \o <<"\n">> : c \in LineContents}

\* ... except a last line that the file does not terminate
Documents ==
    UNION {[1..m -> TerminatedLines] : m \in 0..MaxLines}
    \cup UNION {{d \o <<c>> : d \in [1..m -> TerminatedLines],
                              c \in LineContents \ {<<>>}} : m \in 0..(MaxLines - 1)}

InitShingles ==
    /\ pc = "shingle"
    /\ document \in Documents
    /\ shingle_size \in 1..MaxShingleSize
    /\ shingles = {}
    /\ IdleHash /\ IdleMinHash /\ IdleIndex /\ IdleMain

NextShingles == call_create_shingles_from_file

SpecShingles == InitShingles /\ [][NextShingles]_vars

----------------------------------------------------------------------------
(* Shingle hashing on its own: every set of up to two hash values          *)

\* hash() returns a signed HashBits-bit value and never -1
RawHashes == ((0 - Pow2(HashBits - 1))..(Pow2(HashBits - 1) - 1)) \ {-1}

InitHash ==
    /\ pc = "hash"
    /\ raw_hashes \in {{h1, h2} : h1 \in RawHashes, h2 \in RawHashes} \cup {{}}
    /\ hashed_shingles = {}
    /\ IdleShingles /\ IdleMinHash /\ IdleIndex /\ IdleMain

NextHash == call_hash_shingles

SpecHash == InitHash /\ [][NextHash]_vars

----------------------------------------------------------------------------
(* MinHash on its own: a hash family of every size, then one signature     *)

\* hashed shingles are values hash_shingles can return
HashedValues == {0, 1, 2, HASH_BUCKETS - 1}

InitMinHash ==
    /\ pc = "generate"
    /\ signature_size \in 1..MaxSignatureSize
    /\ hashed_shingles \in SUBSET HashedValues
    /\ raw_hashes = {}
    /\ drawn = <<>> /\ hash_funcs = <<>> /\ signature = <<>>
    /\ closure_env = [a |-> None, b |-> None]
    /\ threshold = <<1, 1>> /\ high_recall = TRUE
    /\ b = 2 /\ r = 1 /\ n_bands = None /\ n_rows = None
    /\ IdleShingles /\ IdleMain

NextMinHash ==
    \/ call_generate_hash_functions_iter
    \/ call_generate_hash_functions_return
    \/ call_create_min_hash_signature

SpecMinHash == InitMinHash /\ [][NextMinHash]_vars

----------------------------------------------------------------------------
(* LSH banding on its own: every mapping of three documents to signatures  *)

\* the values of a signature position
SignatureValues == {0, 1}

\* tuples of every length up to MaxLshSignatureSize, and the all-maximum list
\* that create_min_hash_signature returns for an empty set
LshSignatures(n) ==
    {[kind |-> "tuple", vals |-> v] : v \in [1..n -> SignatureValues]}
    \cup {[kind |-> "list", vals |-> [i \in 1..n |-> sys_maxsize]]}

InitLsh ==
    /\ pc = "band"
    /\ keys = <<"d1", "d2", "d3">>
    /\ signature_size \in 1..MaxLshSignatureSize
    /\ document_signatures \in [{"d1", "d2", "d3"} -> LshSignatures(signature_size)]
    /\ n_bands \in 1..MaxBands
    /\ n_rows \in 1..MaxRows
    /\ tuple_hash \in TupleHashes
    /\ threshold = <<1, 1>> /\ high_recall = TRUE /\ b = 2 /\ r = 1
    /\ documents_hashes = <<>>
    /\ jaccard_similarities = <<>> /\ signature_similarities = <<>>
    /\ candidate_pairs = {} /\ similar_docs = <<>>
    /\ error = "none"
    /\ IdleShingles /\ IdleHash /\ IdleMinHash

NextLsh == call_create_lsh_candidate_pairs

SpecLsh == InitLsh /\ [][NextLsh]_vars

----------------------------------------------------------------------------
(* The pipeline of main: corpora of two and three documents                *)

PipelineHashedValues == {1, 2}

PipelineThresholds == {<<1, 4>>, <<1, 2>>, <<4, 5>>, <<1, 1>>}

Corpora == {<<"d1", "d2">>, <<"d1", "d2", "d3">>}

InitMain ==
    /\ pc = "main"
    /\ keys \in Corpora
    /\ documents_hashes \in [{keys[i] : i \in 1..Len(keys)} -> SUBSET PipelineHashedValues]
    /\ signature_size \in 1..MaxPipelineSignatureSize
    /\ threshold \in PipelineThresholds
    /\ tuple_hash \in TupleHashes
    /\ high_recall = TRUE /\ b = 2 /\ r = 1 /\ n_bands = None /\ n_rows = None
    /\ document_signatures = <<>>
    /\ jaccard_similarities = <<>> /\ signature_similarities = <<>>
    /\ candidate_pairs = {} /\ similar_docs = <<>>
    /\ error = "none"
    /\ IdleShingles /\ IdleHash /\ IdleMinHash

NextMain ==
    \/ main_compare_sets_jaccard
    \/ main_generate_hash_functions_iter
    \/ main_create_signatures
    \/ main_compare_sets_signature
    \/ main_compute_index_measures
    \/ compute_index_measures_loop
    \/ compute_index_measures_return
    \/ main_find_similar_docs_using_lsh

SpecMain == InitMain /\ [][NextMain]_vars

----------------------------------------------------------------------------
(* Claims about compute_index_measures *)

\* some (bb, rr) with bb >= 2 and bb * rr = n satisfies the mode's predicate
valid_pair_exists(n, th, recall) ==
    \E bb \in 2..n : \E rr \in 1..n :
        /\ bb * rr = n
        /\ IF recall THEN estimate_less(bb, rr, th) ELSE estimate_greater(bb, rr, th)

\* C3: when no pair (b, r) with b * r = signature_size satisfies the mode's
\* predicate, compute_index_measures ends in an explicit failure: it does not
\* return, and in particular returns no (None, None) pair.
C3_ExplicitFailure ==
    (pc = "returned" /\ ~valid_pair_exists(signature_size, threshold, high_recall))
        => (error # "none" /\ n_bands # None /\ n_rows # None)

\* C8: a returned (n_bands, n_rows) multiplies to signature_size and its
\* estimate (1/n_bands)^(1/n_rows) is below the threshold in favor-recall mode
\* and above it in favor-precision mode; for signature_size 100, threshold 0.8
\* and favor-recall a pair is returned.
C8_ValidDecomposition ==
    /\ (pc = "returned" /\ n_bands # None) =>
            /\ n_rows # None
            /\ n_bands * n_rows = signature_size
            /\ high_recall => estimate_less(n_bands, n_rows, threshold)
            /\ ~high_recall => estimate_greater(n_bands, n_rows, threshold)
    /\ (/\ pc = "returned"
        /\ signature_size = DefaultSignatureSize
        /\ threshold = <<4, 5>>
        /\ high_recall) => n_bands # None

C8_Witness ==
    /\ pc = "returned"
    /\ signature_size = DefaultSignatureSize
    /\ threshold = <<4, 5>>
    /\ high_recall
    /\ n_bands = 10
    /\ n_rows = 10

\* C10: the scan loop terminates for every signature size, threshold and mode:
\* b never decreases, a step taken with r >= signature_size moves to the next
\* b with r reset, and the loop is left once b exceeds signature_size.
C10_ScanTerminates ==
    /\ <>(pc = "returned")
    /\ [][b' >= b]_vars
    /\ [][(pc = "scan" /\ b <= signature_size /\ r >= signature_size)
            => (b' = b + 1 /\ r' \in {1, 2})]_vars
    /\ [][(pc = "scan" /\ b > signature_size) => pc' = "returned"]_vars

C10_Witness ==
    /\ pc = "returned"
    /\ ~high_recall
    /\ signature_size >= 2
    /\ b > signature_size
    /\ n_bands = None

----------------------------------------------------------------------------
(* Claims about create_shingles_from_file *)

RECURSIVE concat_lines(_, _)
concat_lines(lines, idx) ==
    IF idx > Len(lines) THEN <<>> ELSE lines[idx] \o concat_lines(lines, idx + 1)

\* C1: create_shingles_from_file returns exactly the set of all length-k
\* substrings of the concatenated lines after whitespace normalization, also
\* when a line is shorter than k characters.
C1_ShinglesOfWholeText ==
    pc = "shingled" =>
        shingles = windows(normalize(concat_lines(document, 1)), shingle_size)

----------------------------------------------------------------------------
(* Claims about hash_shingles and the MinHash family *)

\* C9: every element of the set hash_shingles returns is an integer v with
\* 0 <= v < M, whatever value the string hash takes.
C9_HashedBelowModulus ==
    pc = "hashed" => \A v \in hashed_shingles : 0 <= v /\ v < HASH_BUCKETS

SetMin(S) == CHOOSE m \in S : \A x \in S : m <= x

\* C2: once the family is built its i-th function computes (a_i*x + b_i) mod M
\* with the pair drawn in its own i-th iteration, and so signature[i] is the
\* minimum of (a_i*x + b_i) mod M over the hashed shingle set.
C2_OwnCoefficients ==
    /\ pc \in {"generated", "signed"} =>
         \A i \in 1..Len(hash_funcs) : \A x \in HashedValues :
             apply_hash(hash_funcs[i], closure_env, x)
                 = (drawn[i][1] * x + drawn[i][2]) % HASH_BUCKETS
    /\ (pc = "signed" /\ hashed_shingles # {}) =>
         \A i \in 1..signature_size :
             signature.vals[i]
                 = SetMin({(drawn[i][1] * x + drawn[i][2]) % HASH_BUCKETS :
                               x \in hashed_shingles})

----------------------------------------------------------------------------
(* Claims about LSH banding and the pipeline *)

in_list(pair, list) == \E i \in 1..Len(list) : list[i] = pair

\* the corpus is two documents with identical, non-empty shingle sets
two_identical_docs ==
    /\ Len(keys) = 2
    /\ documents_hashes[keys[1]] = documents_hashes[keys[2]]
    /\ documents_hashes[keys[1]] # {}

pair_found ==
    /\ pc = "done"
    /\ <<keys[1], keys[2]>> \in candidate_pairs
    /\ in_list(<<keys[1], keys[2]>>, similar_docs)

\* C4 as stated: for two documents with identical non-empty shingle sets, any
\* signature size n >= 1 and any threshold 0 < t <= 1, the finished pipeline has
\* the pair in the candidate set and in the similar-pairs output.
C4_AnySizeAnyThreshold ==
    (/\ pc \in {"done", "crashed"}
     /\ two_identical_docs
     /\ signature_size >= 1
     /\ threshold[1] > 0 /\ threshold[1] <= threshold[2]) => pair_found

\* C4 as amended: the same, for the (n, t) that have a decomposition, i.e. some
\* b >= 2, r >= 1 with b * r = n and (1/b)^(1/r) < t.
C4_IdenticalDocsFound ==
    (/\ pc \in {"done", "crashed"}
     /\ two_identical_docs
     /\ threshold[1] > 0 /\ threshold[1] <= threshold[2]
     /\ valid_pair_exists(signature_size, threshold, TRUE)) => pair_found

C4_Witness ==
    /\ two_identical_docs
    /\ pair_found
    /\ signature_size = 4
    /\ n_bands = 2 /\ n_rows = 2
    /\ threshold = <<1, 1>>

signatures_built == pc \in {"main_compare", "main_index", "scan", "returned", "done", "crashed"}

\* C5: a document with an empty shingle set is an error at no stage, has
\* signature agreement 0 with every other document, another empty one included,
\* and is in no pair of the similar-pairs output for a threshold > 0.
C5_EmptyIsDissimilar ==
    /\ (pc = "crashed" /\ n_bands # None) =>
           \A d \in DOMAIN documents_hashes : documents_hashes[d] # {}
    /\ signatures_built =>
           \A d, e \in DOMAIN documents_hashes :
               (d # e /\ documents_hashes[d] = {}) =>
                   equal_positions(document_signatures[d], document_signatures[e]) = 0
    /\ (pc = "done" /\ threshold[1] > 0) =>
           \A i \in 1..Len(similar_docs) :
               /\ documents_hashes[similar_docs[i][1]] # {}
               /\ documents_hashes[similar_docs[i][2]] # {}

\* C6: the comparator returns each kept pair together with its score, and with
\* threshold 0 keeps every pair: the caller gets one (document-a, document-b,
\* score) entry, score = equal positions / signature length, per requested pair.
C6_PairsWithScores ==
    (pc \in {"main_index", "scan", "returned", "done", "crashed"}) =>
        /\ Len(signature_similarities) = Len(all_pairs(keys, 1, 2))
        /\ \A i \in 1..Len(signature_similarities) :
             LET entry == signature_similarities[i]
                 pair  == all_pairs(keys, 1, 2)[i]
             IN  /\ Len(entry) = 3
                 /\ entry[1] = pair[1]
                 /\ entry[2] = pair[2]
                 /\ entry[3] = <<equal_positions(document_signatures[pair[1]],
                                                 document_signatures[pair[2]]),
                                 signature_size>>

\* C7: the candidate set never holds a pair in both orders, nor a document
\* paired with itself, nor more pairs than there are unordered pairs of
\* documents, whatever the signatures and (n_bands, n_rows).
C7_CandidatesUnordered ==
    pc = "banded" =>
        /\ \A p \in candidate_pairs : <<p[2], p[1]>> \notin candidate_pairs
        /\ Cardinality(candidate_pairs) * 2 <= Len(keys) * (Len(keys) - 1)

\* three documents in one bucket, in more than one band
C7_Witness ==
    /\ pc = "banded"
    /\ n_bands >= 2
    /\ n_bands * n_rows <= signature_size
    /\ document_signatures["d1"] = document_signatures["d2"]
    /\ document_signatures["d2"] = document_signatures["d3"]
    /\ candidate_pairs = {<<"d1", "d2">>, <<"d1", "d3">>, <<"d2", "d3">>}

============================================================================
